---- MODULE Spec2Model ----
(***************************************************************************)
(* Model of misc/obs/obs_config.py: the utility that creates parent/child  *)
(* packages in OBS for the OpenHPC version in progress from an ini style   *)
(* config file.  One run of main() is modelled statement group by          *)
(* statement group; the OBS project (the remote registry) persists across  *)
(* runs.                                                                   *)
(***************************************************************************)
EXTENDS Integers, Sequences, FiniteSets, TLC

(***************************************************************************)
(* Bounds of the model.                                                    *)
(***************************************************************************)
\* longest per-package compiler_families override list
MaxOverride == 1

(***************************************************************************)
(* Input domains.                                                          *)
(***************************************************************************)
\* a None argument, an option that is not set
None == "None"

\* component names: "fftw-intel" coincides with a compiler variant of "fftw"
BaseNames == {"fftw", "fftw-intel"}

\* [1.3.7] compiler_families: the first entry is the parent compiler
GlobalFamilyChoices ==
    { <<"gnu9">>, <<"gnu9", "intel">>, <<"gnu9", "intel", "arm1">> }

\* families a per-package override list is written with
OverrideFamilies == {"gnu9", "intel"}

SeqsUpTo(S, n) == UNION { [1..k -> S] : k \in 0..n }

\* per-package compiler_families option: absent, or a list
OverrideChoices ==
    { [has |-> FALSE, list |-> << >>] } \cup
    { [has |-> TRUE, list |-> l] : l \in SeqsUpTo(OverrideFamilies, MaxOverride) }

\* raw values of a boolean option of the config file
FlagValues == {"unset", "yes", "no"}

NoOverride == [has |-> FALSE, list |-> << >>]

\* [1.3.7/<name>] sections the model draws from
SectionChoices ==
    { [compiler_dep |-> "unset", mpi_dep |-> "unset", compiler_families |-> NoOverride],
      [compiler_dep |-> "yes",   mpi_dep |-> "yes",   compiler_families |-> NoOverride] }
    \cup
    { [compiler_dep |-> "yes", mpi_dep |-> "no", compiler_families |-> o] :
        o \in OverrideChoices }

\* duplicate-free lists of component names (section names are unique)
ComponentLists ==
    { s \in SeqsUpTo(BaseNames, Cardinality(BaseNames)) :
        Len(s) >= 1 /\ \A i, j \in 1..Len(s) : i # j => s[i] # s[j] }

\* template files the config names
TemplateFiles == {"service_template", "link_compiler_template"}

\* the architectures of the <build> element of a _meta file
Archs == {"aarch64", "x86_64"}

\* skip_aarch / skip_x86 of the version section: absent, or a list of
\* patterns (regular expressions without metacharacters)
NoSkip == [has |-> FALSE, list |-> << >>]

SkipChoices ==
    { NoSkip } \cup
    { [has |-> TRUE, list |-> l] :
        l \in { << >>, <<"intel">>, <<"gnu">>, <<"x86", "ftw-">> } }

\* what can stand before and after an occurrence of a pattern of SkipChoices
\* in the name of a package
Fragments == {"", "f", "fftw-", "9", "gnu9", "intel"}

\* configFile="config", and the file names --configFile is given
configFile == "config"

ConfigFileArgs == {None, "config.next"}

(***************************************************************************)
(* State.                                                                  *)
(***************************************************************************)
VARIABLES
    buildConfig,     \* the parsed config file
    files,           \* template files that exist on disk
    remote,          \* packages defined in the OBS project
    args,            \* parsed command line of the current run
    dryRun,          \* self.dryRun
    buildsToCancel,  \* self.buildsToCancel
    obsPackages,     \* result of queryOBSPackages() of the current run
    pc,              \* position of the current run
    idx,             \* position of "for package in components"
    cidx,            \* position of "for compiler in compilers"
    lidx,            \* position of "for package in self.buildsToCancel"
    frame,           \* arguments of the addPackage call in progress
    log,             \* decisions logged and remote calls issued by the run
    prev             \* summary of the previous run

vars == << buildConfig, files, remote, args, dryRun, buildsToCancel,
           obsPackages, pc, idx, cidx, lidx, frame, log, prev >>

NoFrame == [package |-> None, parent |-> TRUE, isCompilerDep |-> FALSE,
            compiler |-> None, parentName |-> None, gitName |-> None]

NoPrev == [pc |-> None, dryRun |-> TRUE, obsPackages |-> {}, log |-> << >>]

(***************************************************************************)
(* Helpers of ohpc_obs_tool.                                               *)
(***************************************************************************)
\* configparser.getboolean(section, option, fallback=...)
getboolean(raw, fallback) ==
    IF raw = "unset" THEN fallback ELSE raw = "yes"

\* query_components
components == buildConfig.sections

compilerFamilies == buildConfig.compiler_families

\* variant: the last family is taken for the parent compiler
getParentCompiler_last == compilerFamilies[Len(compilerFamilies)]

getParentCompiler == compilerFamilies[1]

isStandalone(package) ==
    LET compiler_dep == getboolean(buildConfig.options[package].compiler_dep, FALSE)
        mpi_dep      == getboolean(buildConfig.options[package].mpi_dep, FALSE)
    IN  IF compiler_dep \/ mpi_dep THEN FALSE ELSE TRUE

\* variant: mpi_dep is not consulted
isCompilerDep_any(package) ==
    LET compiler_dep == getboolean(buildConfig.options[package].compiler_dep, FALSE)
    IN  IF compiler_dep THEN TRUE ELSE FALSE

isCompilerDep(package) ==
    LET compiler_dep == getboolean(buildConfig.options[package].compiler_dep, FALSE)
        mpi_dep      == getboolean(buildConfig.options[package].mpi_dep, FALSE)
    IN  IF compiler_dep /\ ~mpi_dep THEN TRUE ELSE FALSE

\* variant: a package with compiler_dep set is not an MPI package
isMPIDep_only(package) ==
    LET compiler_dep == getboolean(buildConfig.options[package].compiler_dep, FALSE)
        mpi_dep      == getboolean(buildConfig.options[package].mpi_dep, FALSE)
    IN  IF mpi_dep /\ ~compiler_dep THEN TRUE ELSE FALSE

isMPIDep(package) ==
    LET mpi_dep == getboolean(buildConfig.options[package].mpi_dep, FALSE)
    IN  IF mpi_dep THEN TRUE ELSE FALSE

\* first group (in definition order) that lists the package, None if there is none
RECURSIVE groupScan(_, _)
groupScan(package, i) ==
    IF i > Len(buildConfig.groups) THEN None
    ELSE IF package \in buildConfig.groups[i].components
         THEN buildConfig.groups[i].name
         ELSE groupScan(package, i + 1)

checkPackageGroup(package) == groupScan(package, 1)

\* variant: the package's own compiler_families option is not consulted
queryCompilers_global(package) == compilerFamilies

queryCompilers(package) ==
    IF buildConfig.options[package].compiler_families.has
    THEN buildConfig.options[package].compiler_families.list
    ELSE compilerFamilies

\* package + '-' + compiler
variantName(package, compiler) == package \o "-" \o compiler

\* self.NoBuildPatterns: a key per skip option the version section has
NoBuildPatterns ==
    [arch \in (IF buildConfig.skip_aarch.has THEN {"aarch64"} ELSE {}) \cup
              (IF buildConfig.skip_x86.has THEN {"x86_64"} ELSE {}) |->
        IF arch = "aarch64" THEN buildConfig.skip_aarch.list
                            ELSE buildConfig.skip_x86.list]

\* re.search(pattern, string) for a pattern without metacharacters: the
\* pattern occurs somewhere in the string
search(pattern, string) ==
    \E before, after \in Fragments : before \o pattern \o after = string

\* for pattern in self.NoBuildPatterns[arch], from position i on
RECURSIVE patternScan(_, _, _)
patternScan(package, arch, i) ==
    IF i > Len(NoBuildPatterns[arch]) THEN FALSE
    ELSE IF search(NoBuildPatterns[arch][i], package) THEN TRUE
         ELSE patternScan(package, arch, i + 1)

\* variant: only the first pattern of the architecture is tried
disableBuild_first(package, arch) ==
    IF arch \notin DOMAIN NoBuildPatterns THEN FALSE
    ELSE /\ Len(NoBuildPatterns[arch]) > 0
         /\ search(NoBuildPatterns[arch][1], package)

disableBuild(package, arch) ==
    IF arch \notin DOMAIN NoBuildPatterns THEN FALSE
    ELSE patternScan(package, arch, 1)

(***************************************************************************)
(* Log entries.                                                            *)
(***************************************************************************)
\* an entry about the package of an addPackage call, made while the loop of
\* main() is at component number idx
\* the entry of a _meta PUT has the architectures its file disables
Entry(ev, f, ok) ==
    [ev |-> ev, id |-> f.package, ok |-> ok, comp |-> idx, parent |-> f.parent,
     parentName |-> f.parentName, compiler |-> f.compiler,
     disabled |-> IF ev = "meta"
                  THEN { arch \in Archs : disableBuild(f.package, arch) }
                  ELSE {}]

Plain(ev, id, ok) ==
    [ev |-> ev, id |-> id, ok |-> ok, comp |-> 0, parent |-> TRUE,
     parentName |-> None, compiler |-> None, disabled |-> {}]

(***************************************************************************)
(* Initial states: a config file, the template files on disk and the       *)
(* packages already defined in the OBS project; the tool object as         *)
(* __init__ leaves it.                                                     *)
(***************************************************************************)
Range(s) == { s[i] : i \in 1..Len(s) }

\* the package names a run over config c examines
Examined(c) ==
    UNION { LET o  == c.options[p]
                cd == getboolean(o.compiler_dep, FALSE)
                md == getboolean(o.mpi_dep, FALSE)
                fs == IF o.compiler_families.has
                      THEN Range(o.compiler_families.list)
                      ELSE Range(c.compiler_families)
            IN  IF md THEN {}
                ELSE IF cd
                THEN { p \o "-" \o f : f \in fs \cup {c.compiler_families[1]} }
                ELSE {p} :
            p \in Range(c.sections) }

\* [groups] section: one group, listing any of the components
GroupChoices(names) ==
    { << [name |-> "dev-tools", components |-> g] >> : g \in SUBSET names }

ConfigsOf(lists, flags) ==
    UNION { { [dry_run |-> d, compiler_families |-> cf, groups |-> g,
               sections |-> s, options |-> o,
               skip_aarch |-> NoSkip, skip_x86 |-> NoSkip, path |-> None] :
                d \in flags, cf \in GlobalFamilyChoices,
                g \in GroupChoices(Range(s)),
                o \in [Range(s) -> SectionChoices] } :
            s \in lists }

\* every list of components with dry_run unset; every value of dry_run with
\* the lists of one component
Configs ==
    ConfigsOf(ComponentLists, {"unset"}) \cup
    ConfigsOf({ s \in ComponentLists : Len(s) = 1 }, FlagValues)

\* the faults of the environment (a missing template file, a component in no
\* group) are drawn one kind at a time
OneFault(c, f) ==
    \/ f = TemplateFiles
    \/ c.groups[1].components = Range(c.sections)

\* obs = ohpc_obs_tool(args.version), before the first call of main()
ohpc_obs_tool ==
    /\ args = [dryrun |-> TRUE, configFile |-> None]
    /\ dryRun = TRUE
    /\ buildsToCancel = << >>
    /\ obsPackages = {}
    /\ pc = "start"
    /\ idx = 1
    /\ cidx = 1
    /\ lidx = 1
    /\ frame = NoFrame
    /\ log = << >>
    /\ prev = NoPrev

Init ==
    /\ buildConfig \in Configs
    /\ files \in { TemplateFiles } \cup { TemplateFiles \ {t} : t \in TemplateFiles }
    /\ OneFault(buildConfig, files)
    /\ remote \in SUBSET Examined(buildConfig)
    /\ ohpc_obs_tool

(***************************************************************************)
(* ERROR(output): logging.error(output); sys.exit()                        *)
(***************************************************************************)
ERROR(sofar) ==
    /\ log' = Append(sofar, Plain("error", None, FALSE))
    /\ pc' = "exit"

(***************************************************************************)
(* main(): command line, parseConfig, overrideDryRun                       *)
(***************************************************************************)
\* variant: dry_run falls back to False
parseConfig_fallbackFalse == getboolean(buildConfig.dry_run, FALSE)

parseConfig == getboolean(buildConfig.dry_run, TRUE)

overrideDryRun == FALSE

\* main() up to the query of OBS, --configFile drawn from given:
\* obs.parseConfig(configFile=configFile) reads the file named by the global
main_begin(given) ==
    /\ pc = "start"
    /\ \E dryrun \in BOOLEAN, file \in given :
         /\ args' = [dryrun |-> dryrun, configFile |-> file]
         /\ buildConfig' = [buildConfig EXCEPT !.path = configFile]
         /\ dryRun' = IF ~dryrun THEN overrideDryRun ELSE parseConfig
    /\ pc' = "query"
    /\ UNCHANGED << files, remote, buildsToCancel, obsPackages,
                    idx, cidx, lidx, frame, log, prev >>

\* a run started without --configFile
Start == main_begin({None})

\* a run started with or without --configFile
StartWithConfigFile == main_begin(ConfigFileArgs)

(***************************************************************************)
(* queryOBSPackages: osc api -X GET /source/<project>                      *)
(***************************************************************************)
\* variant: no <entry> of the answer is picked up
queryOBSPackages_empty ==
    /\ pc = "query"
    /\ \E ok \in BOOLEAN :
         IF ok
         THEN /\ obsPackages' = {}
              /\ log' = Append(log, Plain("query", None, TRUE))
              /\ pc' = "main"
         ELSE /\ ERROR(Append(log, Plain("query", None, FALSE)))
              /\ UNCHANGED obsPackages
    /\ UNCHANGED << buildConfig, files, remote, args, dryRun, buildsToCancel,
                    idx, cidx, lidx, frame, prev >>

queryOBSPackages ==
    /\ pc = "query"
    /\ \E ok \in BOOLEAN :
         IF ok
         THEN /\ obsPackages' = remote
              /\ log' = Append(log, Plain("query", None, TRUE))
              /\ pc' = "main"
         ELSE /\ ERROR(Append(log, Plain("query", None, FALSE)))
              /\ UNCHANGED obsPackages
    /\ UNCHANGED << buildConfig, files, remote, args, dryRun, buildsToCancel,
                    idx, cidx, lidx, frame, prev >>

(***************************************************************************)
(* main(): for package in components                                       *)
(***************************************************************************)
\* the "present in OBS" / "*not* present in OBS, need to add" decision
\* variant: the package is added whether or not OBS has it
Decide_always(f, nextPc, nextIdx, nextCidx) ==
    /\ log' = Append(log, Entry("create", f, TRUE))
    /\ pc' = "addPackage"
    /\ frame' = f
    /\ UNCHANGED << idx, cidx >>

\* variant: the package is looked up in OBS as it is now
Decide_live(f, nextPc, nextIdx, nextCidx) ==
    IF f.package \in remote
    THEN /\ log' = Append(log, Entry("skip", f, TRUE))
         /\ pc' = nextPc
         /\ idx' = nextIdx
         /\ cidx' = nextCidx
         /\ frame' = NoFrame
    ELSE /\ log' = Append(log, Entry("create", f, TRUE))
         /\ pc' = "addPackage"
         /\ frame' = f
         /\ UNCHANGED << idx, cidx >>

Decide(f, nextPc, nextIdx, nextCidx) ==
    IF f.package \in obsPackages
    THEN /\ log' = Append(log, Entry("skip", f, TRUE))
         /\ pc' = nextPc
         /\ idx' = nextIdx
         /\ cidx' = nextCidx
         /\ frame' = NoFrame
    ELSE /\ log' = Append(log, Entry("create", f, TRUE))
         /\ pc' = "addPackage"
         /\ frame' = f
         /\ UNCHANGED << idx, cidx >>

\* if obs.isStandalone(package)
examineStandalone(package) ==
    Decide([NoFrame EXCEPT !.package = package], "main", idx + 1, cidx)

\* variant: the parent is not checked, the children are
examineParent_skipped(package) ==
    /\ pc' = "children"
    /\ cidx' = 1
    /\ UNCHANGED << idx, frame, log >>

\* elif obs.isCompilerDep(package): "check on parent first"
examineParent(package) ==
    Decide([NoFrame EXCEPT
              !.package = variantName(package, getParentCompiler),
              !.isCompilerDep = TRUE,
              !.gitName = package],
           "children", idx, 1)

\* "now, check on children": one iteration of "for compiler in compilers"
examineChild(package, compiler) ==
    IF compiler = getParentCompiler
    THEN /\ cidx' = cidx + 1
         /\ UNCHANGED << pc, idx, frame, log >>
    ELSE Decide([NoFrame EXCEPT
                   !.package = variantName(package, compiler),
                   !.parent = FALSE,
                   !.isCompilerDep = TRUE,
                   !.compiler = compiler,
                   !.parentName = variantName(package, getParentCompiler)],
                "children", idx, cidx + 1)

mainLoop ==
    /\ pc = "main"
    /\ IF idx > Len(components)
       THEN /\ pc' = "lock"
            /\ UNCHANGED << idx, cidx, frame, log >>
       ELSE LET package == components[idx] IN
            IF isStandalone(package)
            THEN examineStandalone(package)
            ELSE IF isCompilerDep(package)
            THEN examineParent(package)
            ELSE IF isMPIDep(package)
            THEN /\ log' = Append(log, Plain("mpi", package, TRUE))
                 /\ idx' = idx + 1
                 /\ UNCHANGED << pc, cidx, frame >>
            ELSE /\ log' = Append(log, Plain("unsupported", package, FALSE))
                 /\ idx' = idx + 1
                 /\ UNCHANGED << pc, cidx, frame >>
    /\ UNCHANGED << buildConfig, files, remote, args, dryRun, buildsToCancel,
                    obsPackages, lidx, prev >>

childLoop ==
    /\ pc = "children"
    /\ LET package   == components[idx]
           compilers == queryCompilers(package)
       IN  IF cidx > Len(compilers)
           THEN /\ pc' = "main"
                /\ idx' = idx + 1
                /\ UNCHANGED << cidx, frame, log >>
           ELSE examineChild(package, compilers[cidx])
    /\ UNCHANGED << buildConfig, files, remote, args, dryRun, buildsToCancel,
                    obsPackages, lidx, prev >>

(***************************************************************************)
(* addPackage                                                              *)
(***************************************************************************)
\* an exception nothing catches: traceback, the interpreter exits
Uncaught ==
    /\ pc' = "crash"
    /\ UNCHANGED log

\* return to the caller in main()
Return ==
    /\ frame' = NoFrame
    /\ IF ~frame.parent
       THEN /\ pc' = "children"
            /\ cidx' = cidx + 1
            /\ UNCHANGED idx
       ELSE IF frame.isCompilerDep
       THEN /\ pc' = "children"
            /\ cidx' = 1
            /\ UNCHANGED idx
       ELSE /\ pc' = "main"
            /\ idx' = idx + 1
            /\ UNCHANGED cidx

\* variant: the group of a parent package is not looked up
addPackage_begin_noGroup ==
    /\ pc = "addPackage"
    /\ IF "service_template" \notin files
       THEN Uncaught
       ELSE /\ pc' = "meta"
            /\ UNCHANGED log
    /\ UNCHANGED << buildConfig, files, remote, args, dryRun, buildsToCancel,
                    obsPackages, idx, cidx, lidx, frame, prev >>

\* "verify we have template _service file", "verify we have a group definition"
addPackage_begin ==
    /\ pc = "addPackage"
    /\ IF "service_template" \notin files
       THEN Uncaught
       ELSE IF frame.parent /\
               checkPackageGroup(IF frame.gitName # None
                                 THEN frame.gitName ELSE frame.package) = None
       THEN ERROR(log)
       ELSE /\ pc' = "meta"
            /\ UNCHANGED log
    /\ UNCHANGED << buildConfig, files, remote, args, dryRun, buildsToCancel,
                    obsPackages, idx, cidx, lidx, frame, prev >>

\* variant: the call is made in dry run mode too
RemoteCall_noDryRun(ev, effect, after) ==
    \E ok \in BOOLEAN :
      IF ok
      THEN /\ log' = Append(log, Entry(ev, frame, TRUE))
           /\ remote' = remote \cup effect
           /\ after
      ELSE /\ ERROR(Append(log, Entry(ev, frame, FALSE)))
           /\ UNCHANGED << remote, idx, cidx, lidx, frame, buildsToCancel >>

\* variant: a failed call is passed over
RemoteCall_swallow(ev, effect, after) ==
    IF dryRun
    THEN /\ UNCHANGED << log, remote >>
         /\ after
    ELSE \E ok \in BOOLEAN :
           /\ log' = Append(log, Entry(ev, frame, ok))
           /\ remote' = IF ok THEN remote \cup effect ELSE remote
           /\ after

\* subprocess.check_output(command) inside try/except: ERROR
\* `after` is what follows when the call is not made or succeeds
RemoteCall(ev, effect, after) ==
    IF dryRun
    THEN /\ UNCHANGED << log, remote >>
         /\ after
    ELSE \E ok \in BOOLEAN :
           IF ok
           THEN /\ log' = Append(log, Entry(ev, frame, TRUE))
                /\ remote' = remote \cup effect
                /\ after
           ELSE /\ ERROR(Append(log, Entry(ev, frame, FALSE)))
                /\ UNCHANGED << remote, idx, cidx, lidx, frame, buildsToCancel >>

\* Step 1: PUT /source/<project>/<package>/_meta
addPackage_meta ==
    /\ pc = "meta"
    /\ RemoteCall("meta", {frame.package},
                  /\ pc' = "marker"
                  /\ UNCHANGED << idx, cidx, lidx, frame, buildsToCancel >>)
    /\ UNCHANGED << buildConfig, files, args, dryRun, obsPackages, prev >>

\* PUT /source/<project>/<package>/_obs_config_ready_for_build
addPackage_marker ==
    /\ pc = "marker"
    /\ RemoteCall("marker", {},
                  /\ pc' = "linkage"
                  /\ UNCHANGED << idx, cidx, lidx, frame, buildsToCancel >>)
    /\ UNCHANGED << buildConfig, files, args, dryRun, obsPackages, prev >>

\* Step 3: self.buildsToCancel.append(package)
Register ==
    /\ buildsToCancel' = Append(buildsToCancel, frame.package)
    /\ Return
    /\ UNCHANGED lidx

\* Step 2a: PUT _service for a parent; Step 2b: PUT _link for a child
addPackage_linkage ==
    /\ pc = "linkage"
    /\ IF frame.parent
       THEN RemoteCall("service", {}, Register)
       ELSE IF "link_compiler_template" \notin files
       THEN /\ Uncaught
            /\ UNCHANGED << remote, idx, cidx, lidx, frame, buildsToCancel >>
       ELSE RemoteCall("link", {}, Register)
    /\ UNCHANGED << buildConfig, files, args, dryRun, obsPackages, prev >>

(***************************************************************************)
(* cancelNewBuilds: osc lock <project> <package>                           *)
(***************************************************************************)
\* variant: a failed lock is logged and the loop goes on
cancelNewBuilds_bestEffort ==
    /\ pc = "lock"
    /\ IF lidx > Len(buildsToCancel)
       THEN /\ pc' = "done"
            /\ UNCHANGED << log, lidx >>
       ELSE IF dryRun
       THEN /\ lidx' = lidx + 1
            /\ UNCHANGED << log, pc >>
       ELSE \E ok \in BOOLEAN :
              /\ log' = Append(log, Plain("lock", buildsToCancel[lidx], ok))
              /\ lidx' = lidx + 1
              /\ UNCHANGED pc
    /\ UNCHANGED << buildConfig, files, remote, args, dryRun, buildsToCancel,
                    obsPackages, idx, cidx, frame, prev >>

cancelNewBuilds ==
    /\ pc = "lock"
    /\ IF lidx > Len(buildsToCancel)
       THEN /\ pc' = "done"
            /\ UNCHANGED << log, lidx >>
       ELSE IF dryRun
       THEN /\ lidx' = lidx + 1
            /\ UNCHANGED << log, pc >>
       ELSE \E ok \in BOOLEAN :
              IF ok
              THEN /\ log' = Append(log, Plain("lock", buildsToCancel[lidx], TRUE))
                   /\ lidx' = lidx + 1
                   /\ UNCHANGED pc
              ELSE /\ ERROR(Append(log, Plain("lock", buildsToCancel[lidx], FALSE)))
                   /\ UNCHANGED lidx
    /\ UNCHANGED << buildConfig, files, remote, args, dryRun, buildsToCancel,
                    obsPackages, idx, cidx, frame, prev >>

(***************************************************************************)
(* The tool is started again on the same config and OBS project.           *)
(***************************************************************************)
Finished == pc \in {"done", "exit", "crash"}

\* exit status of a run that ended: sys.exit() without an argument and the
\* end of main() give 0, an uncaught exception gives 1
exitStatus == IF pc = "crash" THEN 1 ELSE 0

\* whether the last thing the run did was logging.error
errorLogged == Len(log) > 0 /\ log[Len(log)].ev = "error"

Rerun ==
    /\ Finished
    /\ prev = NoPrev
    /\ prev' = [pc |-> pc, dryRun |-> dryRun, obsPackages |-> obsPackages,
                log |-> log]
    /\ args' = [dryrun |-> TRUE, configFile |-> None]
    /\ buildConfig' = [buildConfig EXCEPT !.path = None]
    /\ dryRun' = TRUE
    /\ buildsToCancel' = << >>
    /\ obsPackages' = {}
    /\ pc' = "start"
    /\ idx' = 1
    /\ cidx' = 1
    /\ lidx' = 1
    /\ frame' = NoFrame
    /\ log' = << >>
    /\ UNCHANGED << files, remote >>

\* main() after the config file was parsed
Steps ==
    \/ queryOBSPackages
    \/ mainLoop
    \/ childLoop
    \/ addPackage_begin
    \/ addPackage_meta
    \/ addPackage_marker
    \/ addPackage_linkage
    \/ cancelNewBuilds

Run == Start \/ Steps

Next == Run

Spec == Init /\ [][Next]_vars

\* two runs in a row: the config file leaves dry_run unset, lists two compiler
\* families and has every component in the group
SessionFamilyChoices == { <<"gnu9", "intel">> }

InitSession ==
    /\ Init
    /\ buildConfig.dry_run = "unset"
    /\ buildConfig.compiler_families \in SessionFamilyChoices
    /\ buildConfig.groups[1].components = Range(buildConfig.sections)

NextSession == Run \/ Rerun

SpecSession == InitSession /\ [][NextSession]_vars

\* every combination of compiler_dep and mpi_dep in the sections of the
\* components; no fault of the environment
ClassifySections ==
    { [compiler_dep |-> c, mpi_dep |-> m, compiler_families |-> NoOverride] :
        c, m \in FlagValues }

ClassifyConfigs ==
    UNION { { [dry_run |-> "unset", compiler_families |-> cf,
               groups |-> << [name |-> "dev-tools", components |-> Range(s)] >>,
               sections |-> s, options |-> o,
               skip_aarch |-> NoSkip, skip_x86 |-> NoSkip, path |-> None] :
                cf \in SessionFamilyChoices,
                o \in [Range(s) -> ClassifySections] } :
            s \in ComponentLists }

InitClassify ==
    /\ buildConfig \in ClassifyConfigs
    /\ files = TemplateFiles
    /\ remote \in SUBSET Examined(buildConfig)
    /\ ohpc_obs_tool

SpecClassify == InitClassify /\ [][Next]_vars

\* one component, standalone or compiler dependent; every choice of the skip
\* options and of --configFile; no fault of the environment
OptionsConfigs ==
    { [dry_run |-> "unset", compiler_families |-> cf,
       groups |-> << [name |-> "dev-tools", components |-> {"fftw"}] >>,
       sections |-> << "fftw" >>,
       options |-> [p \in {"fftw"} |->
                      [compiler_dep |-> c, mpi_dep |-> "unset",
                       compiler_families |-> NoOverride]],
       skip_aarch |-> a, skip_x86 |-> x, path |-> None] :
        cf \in SessionFamilyChoices, c \in {"unset", "yes"},
        a \in SkipChoices, x \in SkipChoices }

InitOptions ==
    /\ buildConfig \in OptionsConfigs
    /\ files = TemplateFiles
    /\ remote \in SUBSET Examined(buildConfig)
    /\ ohpc_obs_tool

NextOptions == StartWithConfigFile \/ Steps

SpecOptions == InitOptions /\ [][NextOptions]_vars

(***************************************************************************)
(* Properties.                                                             *)
(***************************************************************************)
IsDecision(e) == e.ev \in {"create", "skip"}

\* the PUTs of addPackage
IsCreateCall(e) == e.ev \in {"meta", "marker", "service", "link"}

IsMutation(e) == IsCreateCall(e) \/ e.ev = "lock"

Decisions(l) == SelectSeq(l, IsDecision)

\* the decisions taken while the loop of main() was at component k
DecisionsOf(k) ==
    LET AtK(e) == IsDecision(e) /\ e.comp = k
    IN  SelectSeq(log, AtK)

Ident(e) == [id |-> e.id, parent |-> e.parent, parentName |-> e.parentName]

Idents(l) == [i \in 1..Len(l) |-> Ident(l[i])]

IsPrefix(a, b) == Len(a) <= Len(b) /\ SubSeq(b, 1, Len(a)) = a

SnapshotTaken(l) == Len(l) > 0 /\ l[1].ev = "query" /\ l[1].ok

NoMutation(l) == \A i \in 1..Len(l) : ~IsMutation(l[i])

\* C1: every child whose creation is decided has its parent in the snapshot of
\* OBS or among the creations decided earlier in the same run.
C1_ParentBeforeChild ==
    \A i \in 1..Len(log) :
        (log[i].ev = "create" /\ ~log[i].parent) =>
            \/ log[i].parentName \in obsPackages
            \/ \E j \in 1..(i - 1) :
                  log[j].ev = "create" /\ log[j].id = log[i].parentName

C1_Witness ==
    \E i \in 1..Len(log) :
        /\ log[i].ev = "create"
        /\ ~log[i].parent
        /\ log[i].parentName \notin obsPackages
        /\ \E j \in 1..Len(log) : log[j].ev = "link" /\ log[j].ok

\* C2 as stated: a dry run issues no mutating call, and a dry run and a real
\* run on the same config and the same snapshot of OBS log the same decisions.
C2_SameDecisions ==
    /\ dryRun => NoMutation(log)
    /\ ( /\ Finished
         /\ prev.pc # None
         /\ dryRun # prev.dryRun
         /\ SnapshotTaken(log) /\ SnapshotTaken(prev.log)
         /\ obsPackages = prev.obsPackages )
       => Decisions(log) = Decisions(prev.log)

\* C2 amended: a dry run issues no mutating call; the decisions of a real run
\* on the same config and snapshot are a prefix of those of the dry run, and
\* the same decisions unless a PUT of the real run failed.
C2_SameDecisionsUnlessFailed ==
    /\ dryRun => NoMutation(log)
    /\ ( /\ Finished
         /\ prev.pc # None
         /\ dryRun # prev.dryRun
         /\ SnapshotTaken(log) /\ SnapshotTaken(prev.log)
         /\ obsPackages = prev.obsPackages )
       => LET sim  == IF dryRun THEN log ELSE prev.log
              real == IF dryRun THEN prev.log ELSE log
          IN  /\ IsPrefix(Decisions(real), Decisions(sim))
              /\ (\A i \in 1..Len(real) : IsCreateCall(real[i]) => real[i].ok)
                    => Decisions(real) = Decisions(sim)

C2_Witness ==
    /\ pc = "done"
    /\ prev.pc = "done"
    /\ prev.dryRun /\ ~dryRun
    /\ obsPackages = prev.obsPackages
    /\ \E i \in 1..Len(log) : log[i].ev = "skip"
    /\ \E i \in 1..Len(log) : log[i].ev = "link" /\ log[i].ok

\* C3 as stated: a run started without --no-dryrun issues no mutating call.
C3_DryRunWithoutFlag ==
    args.dryrun => NoMutation(log)

\* C3 amended: a run started without --no-dryrun on a config file that does
\* not set dry_run to false issues no mutating call.
C3_DryRunByDefault ==
    (args.dryrun /\ buildConfig.dry_run # "no") => NoMutation(log)

C3_Witness ==
    /\ args.dryrun
    /\ buildConfig.dry_run = "unset"
    /\ pc = "done"
    /\ Len(buildsToCancel) > 1

\* C4: after a real run that completed, a second run on the same config
\* decides no creation.
C4_Idempotent ==
    (prev.pc = "done" /\ ~prev.dryRun) =>
        \A i \in 1..Len(log) : log[i].ev # "create"

C4_Witness ==
    /\ prev.pc = "done"
    /\ ~prev.dryRun
    /\ \E i \in 1..Len(prev.log) : prev.log[i].ev = "create"
    /\ pc = "done"
    /\ \E i \in 1..Len(log) : log[i].ev = "skip"

\* C5: in a real run that completed every created package was locked exactly
\* once, after all creations, and nothing else was locked; a dry run fills
\* buildsToCancel the same way and locks nothing.
C5_LockedOnce ==
    /\ (pc = "done" /\ ~dryRun) =>
          /\ \A i \in 1..Len(log) :
                log[i].ev = "create" =>
                    Cardinality({ j \in 1..Len(log) :
                                    log[j].ev = "lock" /\ log[j].id = log[i].id }) = 1
          /\ \A j \in 1..Len(log) :
                log[j].ev = "lock" =>
                    /\ \E i \in 1..Len(log) :
                          log[i].ev = "create" /\ log[i].id = log[j].id
                    /\ \A i \in 1..Len(log) : IsCreateCall(log[i]) => i < j
    /\ dryRun => \A j \in 1..Len(log) : log[j].ev # "lock"
    /\ pc = "done" =>
          buildsToCancel =
              [i \in 1..Len(SelectSeq(log, LAMBDA e : e.ev = "create")) |->
                  SelectSeq(log, LAMBDA e : e.ev = "create")[i].id]

\* C6: a failed PUT of addPackage is the last remote call of the run: the
\* error is logged, the run exits, and what was created before stays in OBS.
C6_FailFast ==
    \A i \in 1..Len(log) :
        (IsCreateCall(log[i]) /\ ~log[i].ok) =>
            /\ pc = "exit"
            /\ Len(log) = i + 1
            /\ log[i + 1].ev = "error"
            /\ \A j \in 1..(i - 1) :
                  (log[j].ev = "meta" /\ log[j].ok) => log[j].id \in remote

C6_Witness ==
    \E i \in 1..Len(log) :
        /\ IsCreateCall(log[i]) /\ ~log[i].ok
        /\ \E j \in 1..(i - 1) :
              log[j].ev = "service" /\ log[j].ok /\ log[j].id # log[i].id

\* C7 as stated: when a lock fails, a lock is still requested for every other
\* entry of buildsToCancel.
C7_BestEffortLocks ==
    (Finished /\ \E i \in 1..Len(log) : log[i].ev = "lock" /\ ~log[i].ok) =>
        Cardinality({ j \in 1..Len(log) : log[j].ev = "lock" }) = Len(buildsToCancel)

\* C7 amended: a failed lock ends the run: the error is logged, the run exits
\* and no lock is requested for the entries of buildsToCancel after it.
C7_FailFastLocks ==
    \A i \in 1..Len(log) :
        (log[i].ev = "lock" /\ ~log[i].ok) =>
            /\ pc = "exit"
            /\ Len(log) = i + 1
            /\ log[i + 1].ev = "error"
            /\ log[i].id = buildsToCancel[lidx]
            /\ Cardinality({ j \in 1..Len(log) : log[j].ev = "lock" }) = lidx

C7_Witness ==
    /\ pc = "exit"
    /\ \E i \in 1..Len(log) : log[i].ev = "lock" /\ ~log[i].ok
    /\ lidx < Len(buildsToCancel)

\* C8: a compiler dependent component without an override, under the global
\* list [A, B, C], has exactly base-A (parent), base-B and base-C (children of
\* base-A) examined, in this order.
C8_ThreeFamilies ==
    \A k \in 1..Len(components) :
        LET base == components[k]
            A == compilerFamilies[1]
        IN  ( /\ idx > k
              /\ isCompilerDep(base)
              /\ ~buildConfig.options[base].compiler_families.has
              /\ Len(compilerFamilies) = 3 )
            => Idents(DecisionsOf(k)) =
                 << [id |-> base \o "-" \o A, parent |-> TRUE, parentName |-> None],
                    [id |-> base \o "-" \o compilerFamilies[2], parent |-> FALSE,
                     parentName |-> base \o "-" \o A],
                    [id |-> base \o "-" \o compilerFamilies[3], parent |-> FALSE,
                     parentName |-> base \o "-" \o A] >>

C8_Witness ==
    /\ pc = "done"
    /\ ~dryRun
    /\ Len(compilerFamilies) = 3
    /\ \E k \in 1..Len(components) :
          /\ isCompilerDep(components[k])
          /\ ~buildConfig.options[components[k]].compiler_families.has
          /\ Len(DecisionsOf(k)) = 3
          /\ DecisionsOf(k)[2].ev = "create"

\* the override list of a component
OverrideOf(base) == buildConfig.options[base].compiler_families.list

C10_StrictlyAdditive ==
    \A i \in 1..Len(log) :
        /\ IsMutation(log[i]) => log[i].id \notin obsPackages
        /\ log[i].ev = "create" => log[i].id \notin obsPackages
        /\ log[i].ev = "skip" =>
              /\ log[i].id \in obsPackages
              /\ \A j \in 1..Len(log) : IsMutation(log[j]) => log[j].id # log[i].id

C10_Witness ==
    /\ pc = "done"
    /\ ~dryRun
    /\ \E i, j \in 1..Len(log) :
          /\ log[i].ev = "skip"
          /\ log[j].ev = "lock" /\ log[j].ok

\* C11: no package is added twice in a run: buildsToCancel never holds the
\* same name at two positions, and no name is the subject of two "need to
\* add" decisions.
C11_CreatedOnce ==
    /\ \A i, j \in 1..Len(buildsToCancel) :
          i # j => buildsToCancel[i] # buildsToCancel[j]
    /\ \A i, j \in 1..Len(log) :
          (i # j /\ log[i].ev = "create" /\ log[j].ev = "create")
              => log[i].id # log[j].id

\* C12: a run that ended on an error (config, template, group, remote call)
\* logged an error message and left a non-zero exit status.
C12_ErrorExitsNonZero ==
    pc \in {"exit", "crash"} => (errorLogged /\ exitStatus # 0)

\* C13: when a template file named by the config does not exist the run
\* fails before OBS is queried and before any mutating call, and never
\* completes.
C13_TemplatesLoadedEagerly ==
    files # TemplateFiles =>
        /\ pc # "done"
        /\ \A i \in 1..Len(log) : log[i].ev # "query" /\ ~IsMutation(log[i])

\* component number k is standalone or compiler dependent and in no group
Ungrouped(k) ==
    /\ ~isMPIDep(components[k])
    /\ checkPackageGroup(components[k]) = None

\* C14 as stated: the run never gets past a component that is in no group,
\* and no call that creates a package is made for it or for its children.
C14_UngroupedIsFatal ==
    \A k \in 1..Len(components) :
        Ungrouped(k) =>
            /\ idx <= k
            /\ \A i \in 1..Len(log) : ~(log[i].comp = k /\ IsCreateCall(log[i]))

\* C14: the group is looked up when a parent package is about to be added:
\* the "need to add" decision for the parent of a component in no group is
\* followed by the error only, the run stops at that component, and this
\* and a failed remote call are the only sources of an error.  (When the
\* parent is in OBS the group is not looked up.)
C14_UngroupedParentIsFatal ==
    /\ \A i \in 1..Len(log) :
          (log[i].ev = "create" /\ log[i].parent /\ Ungrouped(log[i].comp)) =>
              /\ \A j \in (i + 1)..Len(log) : log[j].ev = "error"
              /\ idx = log[i].comp
              /\ pc \in {"addPackage", "exit", "crash"}
    /\ \A j \in 1..Len(log) :
          log[j].ev = "error" =>
              /\ j > 1
              /\ \/ ~log[j-1].ok
                 \/ /\ log[j-1].ev = "create"
                    /\ log[j-1].parent
                    /\ Ungrouped(log[j-1].comp)

C14_Witness ==
    /\ pc = "exit"
    /\ Len(log) > 2
    /\ log[Len(log)].ev = "error"
    /\ log[Len(log) - 1].ev = "create"
    /\ Ungrouped(log[Len(log) - 1].comp)
    /\ \E i \in 1..Len(log) : log[i].ev = "skip"

\* the options of component number k as written in its section
RawFlags(k) ==
    << buildConfig.options[components[k]].compiler_dep,
       buildConfig.options[components[k]].mpi_dep >>

\* C15: whatever compiler_dep and mpi_dep are set to (yes, no or unset, unset
\* counting as no), a component is exactly one of standalone (neither set),
\* compiler dependent (compiler_dep without mpi_dep) and MPI dependent
\* (mpi_dep), main() treats it as such, and "Unsupported package type" is
\* never logged.
C15_ExactlyOneClass ==
    /\ \A k \in 1..Len(components) :
          LET p  == components[k]
              cd == RawFlags(k)[1] = "yes"
              md == RawFlags(k)[2] = "yes"
          IN  /\ isStandalone(p) <=> (~cd /\ ~md)
              /\ isCompilerDep(p) <=> (cd /\ ~md)
              /\ isMPIDep(p) <=> md
              /\ k < idx =>
                    /\ md <=> \E i \in 1..Len(log) :
                                 log[i].ev = "mpi" /\ log[i].id = p
                    /\ (~cd /\ ~md) <=>
                          \E i \in 1..Len(log) :
                             IsDecision(log[i]) /\ log[i].comp = k /\ log[i].id = p
                    /\ (cd /\ ~md) <=>
                          \E i \in 1..Len(log) :
                             /\ IsDecision(log[i]) /\ log[i].comp = k
                             /\ log[i].id = variantName(p, getParentCompiler)
    /\ \A i \in 1..Len(log) : log[i].ev # "unsupported"

C15_Witness ==
    /\ pc = "done"
    /\ Len(components) = 2
    /\ RawFlags(1) = << "yes", "yes" >>
    /\ RawFlags(2) = << "unset", "no" >>
    /\ \E i, j \in 1..Len(log) :
          /\ log[i].ev = "mpi" /\ log[i].id = components[1]
          /\ log[j].ev = "create" /\ log[j].id = components[2]

\* C16: for a component with mpi_dep set, whatever compiler_dep is, main()
\* only logs that MPI packages are not supported: no present/add decision is
\* taken and no remote call is made while the loop is at it, and nothing is
\* appended to buildsToCancel for it.
C16_MPINeverCreated ==
    /\ \A i \in 1..Len(log) :
          (IsDecision(log[i]) \/ IsCreateCall(log[i]))
              => RawFlags(log[i].comp)[2] # "yes"
    /\ (pc \in {"main", "children"} /\ idx <= Len(components)
            /\ RawFlags(idx)[2] = "yes")
          => (pc = "main" /\ frame = NoFrame)
    /\ Len(buildsToCancel) <=
          Cardinality({ i \in 1..Len(log) :
                          log[i].ev = "create" /\ RawFlags(log[i].comp)[2] # "yes" })

C16_Witness ==
    /\ pc = "done"
    /\ ~dryRun
    /\ Len(components) = 2
    /\ RawFlags(1) = << "no", "yes" >>
    /\ RawFlags(2)[2] # "yes"
    /\ Len(buildsToCancel) > 0
    /\ \E i \in 1..Len(log) : log[i].ev = "mpi" /\ log[i].id = components[1]
    /\ \E i \in 1..Len(log) : log[i].ev = "lock"

\* the pairs of a pattern of SkipChoices and a package name it occurs in
Occurs ==
    { << "intel", "fftw-intel" >>, << "gnu", "fftw-gnu9" >>,
      << "ftw-", "fftw-gnu9" >>, << "ftw-", "fftw-intel" >> }

\* C17: the _meta file PUT for a package disables the build on an
\* architecture exactly when the skip option of that architecture is there
\* and one of its patterns occurs in the package name; the other
\* architecture's option plays no part.
C17_DisabledIffPatternMatches ==
    \A i \in 1..Len(log) :
        log[i].ev = "meta" =>
            /\ ("aarch64" \in log[i].disabled) <=>
                  /\ buildConfig.skip_aarch.has
                  /\ \E n \in 1..Len(buildConfig.skip_aarch.list) :
                        << buildConfig.skip_aarch.list[n], log[i].id >> \in Occurs
            /\ ("x86_64" \in log[i].disabled) <=>
                  /\ buildConfig.skip_x86.has
                  /\ \E n \in 1..Len(buildConfig.skip_x86.list) :
                        << buildConfig.skip_x86.list[n], log[i].id >> \in Occurs

C17_Witness ==
    /\ pc = "done"
    /\ buildConfig.skip_aarch.list = << "x86", "ftw-" >>
    /\ buildConfig.skip_x86.list = << "gnu" >>
    /\ \E i, j \in 1..Len(log) :
          /\ log[i].ev = "meta" /\ log[i].ok /\ log[i].id = "fftw-gnu9"
          /\ log[i].disabled = {"aarch64", "x86_64"}
          /\ log[j].ev = "meta" /\ log[j].ok /\ log[j].id = "fftw-intel"
          /\ log[j].disabled = {"aarch64"}

\* C18: the config file that was parsed is the one --configFile names, and
\* the default file when the option is not given.
C18_ConfigFileFromFlag ==
    pc # "start" =>
        buildConfig.path = (IF args.configFile # None THEN args.configFile
                                                       ELSE configFile)

\* the packages whose _meta this run has PUT
MetaPut == { log[i].id : i \in { n \in 1..Len(log) :
                                    log[n].ev = "meta" /\ log[n].ok } }

\* C19: OBS is queried once, as the first thing the run does to it, and
\* before any decision; what the query returned is what every decision is
\* taken against, and it stays what OBS held before the run: the packages
\* the run has added since are in OBS but not in obsPackages.
C19_SnapshotOnce ==
    /\ \A i \in 1..Len(log) : log[i].ev = "query" <=> i = 1
    /\ (\E i \in 1..Len(log) : IsDecision(log[i])) => SnapshotTaken(log)
    /\ SnapshotTaken(log) =>
          /\ obsPackages = remote \ MetaPut
          /\ MetaPut \subseteq remote
    /\ \A i \in 1..Len(log) :
          /\ log[i].ev = "create" => log[i].id \notin obsPackages
          /\ log[i].ev = "skip" => log[i].id \in obsPackages

C19_Witness ==
    /\ pc = "done"
    /\ \E i, j, k \in 1..Len(log) :
          /\ i < j /\ j < k
          /\ log[i].ev = "meta" /\ log[i].ok
          /\ IsDecision(log[j]) /\ log[j].id # log[i].id
          /\ log[k].ev = "create" /\ log[k].id = log[i].id
          /\ log[k].id \in remote

\* C20: in a real run that completed every package whose _meta was PUT got
\* exactly one of _service and _link, after the _meta: _service when it was
\* added as a parent, _link (to the parent of its component, for its own
\* compiler) when it was added as a child.
C20_OneLinkage ==
    (pc = "done" /\ ~dryRun) =>
        \A i \in 1..Len(log) :
            log[i].ev = "meta" =>
                LET L == { j \in 1..Len(log) :
                             /\ log[j].ev \in {"service", "link"}
                             /\ log[j].id = log[i].id }
                IN  /\ Cardinality(L) = 1
                    /\ \A j \in L :
                          /\ j > i
                          /\ log[j].ev = "service" <=> log[i].parent
                          /\ log[j].ev = "link" =>
                                /\ log[j].parentName =
                                      variantName(components[log[j].comp],
                                                  getParentCompiler)
                                /\ log[j].id =
                                      variantName(components[log[j].comp],
                                                  log[j].compiler)

\* how many entries of kind evs, answered with success, the log has for id
Succeeded(evs, id) ==
    Cardinality({ i \in 1..Len(log) :
                    log[i].ev \in evs /\ log[i].ok /\ log[i].id = id })

\* C21: in a real run a package is in buildsToCancel only after its _meta,
\* its marker and its _service or _link were PUT with success, once for
\* each time it is in the list; a lock is requested only for such a package
\* and only in a run where no PUT has failed.
C21_LockOnlyProvisioned ==
    ~dryRun =>
        /\ \A n \in 1..Len(buildsToCancel) :
              LET id    == buildsToCancel[n]
                  times == Cardinality({ m \in 1..n : buildsToCancel[m] = id })
              IN  /\ times <= Succeeded({"meta"}, id)
                  /\ times <= Succeeded({"marker"}, id)
                  /\ times <= Succeeded({"service", "link"}, id)
        /\ \A j \in 1..Len(log) :
              log[j].ev = "lock" =>
                  /\ \E n \in 1..Len(buildsToCancel) : buildsToCancel[n] = log[j].id
                  /\ \A i \in 1..Len(log) : IsCreateCall(log[i]) => (log[i].ok /\ i < j)

C21_Witness ==
    /\ ~dryRun
    /\ pc = "exit"
    /\ Len(buildsToCancel) > 0
    /\ Len(log) > 2
    /\ log[Len(log) - 1].ev = "link" /\ ~log[Len(log) - 1].ok
    /\ Succeeded({"meta"}, log[Len(log) - 1].id) = 1
    /\ \A n \in 1..Len(buildsToCancel) : buildsToCancel[n] # log[Len(log) - 1].id

====
